---- MODULE Spec2Model ----
(***************************************************************************)
(* Model of the native side of the managed-runtime bridge                  *)
(* (src/src/runtime.rs, src/src/error.rs, src/src/hostfxr.rs).             *)
(*                                                                         *)
(* The managed side is reached only through the function table of          *)
(* RuntimeLibrary; every reply it gives (the status written to the status  *)
(* out-parameter, a null or non-null result pointer, a payload that        *)
(* decodes or not) is an input of the action that makes the call.          *)
(* Handles returned by the managed side are distinct non-null numbers,     *)
(* the n-th handle of a kind being 3 * (n - 1) + 1 for a Class, + 2 for a  *)
(* Method and + 3 for an Object; 0 is the null pointer.                   *)
(***************************************************************************)
EXTENDS Integers, Sequences, FiniteSets, Bags, TLC

\* ---- bounds of the model ----
MaxClasses == 2      \* Class handles the managed side hands out
MaxMethods == 1      \* Method handles the managed side hands out
MaxObjects == 2      \* Object handles the managed side hands out
MaxScripts == 1      \* Script values the application holds at the same time
MaxScopes == 2       \* Scopes the managed side creates
MaxStatus == 1       \* statuses the managed side writes are 0..MaxStatus
MaxInvokables == 1   \* Invokables alive at the same time
MaxLen == 3          \* length of the strings handed to the terminator code
MaxCode == 15        \* status codes handed to the error mapping are -MaxCode..MaxCode
MaxValue == 1        \* the numbers in field values are 0..MaxValue
MaxPart == 10        \* the components of an installed version are 0..MaxPart
MaxInstalled == 2    \* versions installed under host/fxr

Names == {"Player", "Enemy"}            \* script class names
MethodNames == {"Update", "Jump"}
Arities == {0, 1}
AssemblyTypes == {"Engine", "Scripts"}  \* enum AssemblyType
Statuses == 0..MaxStatus
NULL == 0                               \* std::ptr::null()
NoScope == 0                            \* Runtime.scope == None

VARIABLES
    rtAlive,            \* the Runtime value exists (not yet dropped)
    ctxClosed,          \* number of hostfxr_close calls on host.ctx
    scope,              \* Runtime.scope: NoScope or the id of the Scope
    assemblies,         \* Runtime.assemblies: AssemblyType -> scope it was loaded in
    fullname_to_script, \* Runtime.fullname_to_script: name -> index (0-based)
    scripts,            \* Runtime.scripts: sequence of Type
    handles,            \* Script values held by the application
    invokables,         \* Invokable values held by the application (a bag)
    handed,             \* kind -> number of handles of the kind handed out so far
    nextScope,          \* next scope id the managed side hands out
    destroyed,          \* handle -> number of Destroy calls received
    unloads,            \* scope -> number of Unload calls received
    calls,              \* calls made to the managed side / shim by the last operation
    last,               \* the last operation: its name, arguments and result
    purged,             \* Method handles that were in a cache when clear() ran
    createdFrom,        \* Object handle -> the Class handle New was called on to make it
    strFn, strIn, strOut, \* terminator code: function, caller's string, string passed on
    classes,            \* Class values the application got from RuntimeLibrary::get_class
    objects,            \* Object values the application got from RuntimeLibrary::new_object
    methods,            \* Method values the application got from RuntimeLibrary::get_method
    errFn, errIn, errOut, \* error mapping: function, status written, what the caller gets
    bootPc,             \* bootstrap: the step Runtime::new is at
    bootInit,           \* bootstrap: hostfxr_initialize_for_runtime_config succeeded
    bootCtx,            \* bootstrap: Hostfxr.ctx
    bootTable,          \* bootstrap: the pointers of RuntimeLibrary resolved so far
    sysAccess,          \* systems: how each system takes the Runtime (Res or ResMut)
    sysPc,              \* systems: where each system is inside Runtime::get_method
    sysSeen,            \* systems: the borrow flag each system read in borrow_mut
    sysResult,          \* systems: what get_method returned to each system last
    borrowFlag,         \* systems: the borrow flag of the RefCell of Type::methods
    cached,             \* systems: the method table of the Type holds the key asked for
    fldStore,           \* fields: the managed object's fields, name -> value
    fldLast,            \* fields: the last set or get call on the object and its result
    verInstalled,       \* build: the names of the directories under host/fxr
    verConfig,          \* build: Config::version
    verOut              \* build: what get_versions returned

vars == <<rtAlive, ctxClosed, scope, assemblies, fullname_to_script, scripts,
          handles, invokables, handed, nextScope, destroyed, unloads,
          calls, last, purged, createdFrom, strFn, strIn, strOut, classes, objects, methods,
          errFn, errIn, errOut, bootPc, bootInit, bootCtx, bootTable,
          sysAccess, sysPc, sysSeen, sysResult, borrowFlag, cached, fldStore, fldLast,
          verInstalled, verConfig, verOut>>

rtVars == <<rtAlive, ctxClosed, scope, assemblies, fullname_to_script, scripts,
            handles, invokables, handed, nextScope, destroyed, unloads,
            calls, last, purged, createdFrom>>
strVars == <<strFn, strIn, strOut>>
libVars == <<classes, objects, methods>>
errVars == <<errFn, errIn, errOut>>
bootVars == <<bootPc, bootInit, bootCtx, bootTable>>
sysVars == <<sysAccess, sysPc, sysSeen, sysResult, borrowFlag, cached>>
fldVars == <<fldStore, fldLast>>
verVars == <<verInstalled, verConfig, verOut>>
sideVars == <<libVars, errVars, bootVars, sysVars, fldVars, verVars>>
libRest == <<strVars, errVars, bootVars, sysVars, fldVars, verVars>>
errRest == <<strVars, libVars, bootVars, sysVars, fldVars, verVars>>
bootRest == <<strVars, libVars, errVars, sysVars, fldVars, verVars>>
sysRest == <<strVars, libVars, errVars, bootVars, fldVars, verVars>>
fldRest == <<strVars, libVars, errVars, bootVars, sysVars, verVars>>
verRest == <<strVars, libVars, errVars, bootVars, sysVars, fldVars>>

Kinds == {"class", "method", "object"}
MaxOf(k) == CASE k = "class" -> MaxClasses [] k = "method" -> MaxMethods [] k = "object" -> MaxObjects
KindOf(h) == CASE h % 3 = 1 -> "class" [] h % 3 = 2 -> "method" [] h % 3 = 0 -> "object"
HandleOf(k, n) == 3 * (n - 1) + (CASE k = "class" -> 1 [] k = "method" -> 2 [] k = "object" -> 3)

\* ---- error.rs ----
ErrorFromSwapped(value) ==
    CASE value = 1 -> "ClassNotFound"
      [] value = 2 -> "MethodNotFound"
      [] value = 3 -> "FieldNotFound"
      [] value = 4 -> "PropertyNotFound"
      [] value = 5 -> "ReadonlyField"
      [] value = 6 -> "MissingSetter"
      [] value = 7 -> "MissingGetter"
      [] value = 8 -> "MissingRequiredArgument"
      [] value = 9 -> "PathNotFound"
      [] value = 10 -> "AssemblyNotLoaded"
      [] value = 11 -> "ClassNotRegistered"
      [] OTHER -> "UnknownManaged"
ErrorFrom(value) ==
    CASE value = 1 -> "ClassNotFound"
      [] value = 2 -> "MethodNotFound"
      [] value = 3 -> "FieldNotFound"
      [] value = 4 -> "PropertyNotFound"
      [] value = 5 -> "ReadonlyField"
      [] value = 6 -> "MissingGetter"
      [] value = 7 -> "MissingSetter"
      [] value = 8 -> "MissingRequiredArgument"
      [] value = 9 -> "PathNotFound"
      [] value = 10 -> "AssemblyNotLoaded"
      [] value = 11 -> "ClassNotRegistered"
      [] OTHER -> "UnknownManaged"

\* `if err > 0 { return Err(Error::from(err)); }` after every call that has a
\* status out-parameter
FailedAboveOne(err) == err > 1
Failed(err) == err > 0

\* ---- calls across the boundary ----
\* fn: the function called; h: its first pointer argument; arg: its second
\* pointer argument; st: the status it wrote; out: the result pointer it wrote
CallOn(fn, h, arg, st, out) == [fn |-> fn, h |-> h, arg |-> arg, st |-> st, out |-> out]
Call(fn, h, st, out) == CallOn(fn, h, NULL, st, out)

CountCalls(cs, fn, h) == Cardinality({i \in DOMAIN cs : cs[i].fn = fn /\ cs[i].h = h})

\* the release counters after the calls cs were made
Released(d, cs) == [h \in DOMAIN d |-> d[h] + CountCalls(cs, "Destroy", h)]
Unloaded(u, cs) == [s \in DOMAIN u |-> u[s] + CountCalls(cs, "Unload", s)]
Closed(c, cs) == c + Cardinality({i \in DOMAIN cs : cs[i].fn = "hostfxr_close"})

Range(f) == {f[x] : x \in DOMAIN f}

RECURSIVE SetToSeq(_)
SetToSeq(S) == IF S = {} THEN <<>>
               ELSE LET m == CHOOSE x \in S : \A y \in S : x <= y
                    IN <<m>> \o SetToSeq(S \ {m})

RECURSIVE Flatten(_)
Flatten(ss) == IF ss = <<>> THEN <<>> ELSE Head(ss) \o Flatten(Tail(ss))

\* ---- Rc<Method>: strong references held by Invokables ----
InvRefs(inv, m) ==
    LET S == {i \in BagToSet(inv) : i.method = m}
    IN IF S = {} THEN 0 ELSE BagCardinality([i \in S |-> inv[i]])

\* impl Drop for Class / Method / Object
DropHandleNever(h) == <<>>
DropHandle(h) == <<Call("Destroy", h, 0, NULL)>>

\* impl Drop for Scope: the status written by Unload is not read
DropScope(s, st) == <<Call("Unload", s, st, NULL)>>

\* dropping one Rc<Type> (the Vec holds the only reference): fields drop in
\* declaration order, class first, then the method table; a Method is
\* released when the table held its last reference
DropTypeOwned(t, inv) ==
    DropHandle(t.class)
    \o Flatten([i \in 1..Cardinality(Range(t.methods)) |->
                  DropHandle(SetToSeq(Range(t.methods))[i])])
DropType(t, inv) ==
    DropHandle(t.class)
    \o Flatten([i \in 1..Cardinality({m \in Range(t.methods) : InvRefs(inv, m) = 0}) |->
                  DropHandle(SetToSeq({m \in Range(t.methods) : InvRefs(inv, m) = 0})[i])])

DropTypes(ts, inv) == Flatten([i \in DOMAIN ts |-> DropType(ts[i], inv)])

CachedMethods(ts) == UNION {Range(ts[i].methods) : i \in DOMAIN ts}

NoLast == [op |-> "none", res |-> "none"]

\* a panic ends the program: nothing runs after it
Running == last.res # "panic"
EmptyMap == <<>>

RtInit ==
    /\ rtAlive = TRUE
    /\ ctxClosed = 0
    /\ scope = NoScope
    /\ assemblies = EmptyMap
    /\ fullname_to_script = EmptyMap
    /\ scripts = <<>>
    /\ handles = {}
    /\ invokables = EmptyBag
    /\ handed = [k \in Kinds |-> 0]
    /\ nextScope = 1
    /\ destroyed = EmptyMap
    /\ unloads = EmptyMap
    /\ calls = <<>>
    /\ last = NoLast
    /\ purged = {}
    /\ createdFrom = EmptyMap

\* the application holds no handle of its own yet
LibInit ==
    /\ classes = {}
    /\ objects = {}
    /\ methods = {}

ErrInit ==
    /\ errFn = "none"
    /\ errIn = 0
    /\ errOut = "none"

\* the fields of RuntimeLibrary, in the order RuntimeLibrary::new resolves them
TableEntries == <<"Ping", "Destroy", "Free", "CreateScope", "Unload", "LoadFromPath",
                  "GetClass", "New", "IsAssignableFrom", "GetMethod", "GetMetaData",
                  "SetFieldValue", "GetFieldValue", "SetPropertyValue", "GetPropertyValue",
                  "RuntimeInvoke">>

\* Runtime::new returned Ok after a bootstrap in which everything succeeded
BootDone ==
    /\ bootPc = "done"
    /\ bootInit = TRUE
    /\ bootCtx = 1
    /\ bootTable = [i \in DOMAIN TableEntries |-> 1]

\* the systems of the application that use the Runtime resource
Systems == {1, 2}

\* no system is running
SysIdle ==
    /\ sysPc = [t \in Systems |-> "idle"]
    /\ sysSeen = [t \in Systems |-> FALSE]
    /\ sysResult = [t \in Systems |-> "none"]
    /\ borrowFlag = FALSE
    /\ cached = FALSE

\* values a caller passes by reference and decodes into: a number, or a
\* struct of two numbers
Scalars == {[shape |-> "Scalar", n |-> n] : n \in 0..MaxValue}
Vectors == {[shape |-> "Vector", x |-> x, y |-> y] : x, y \in 0..MaxValue}
Values == Scalars \cup Vectors
ValuesOf(shape) == {v \in Values : v.shape = shape}

\* the managed class of the object: a field "a" that holds a struct and a
\* field "aa" that holds a number, both zero in a new object
FieldTypes == (<<"a">> :> "Vector") @@ (<<"a", "a">> :> "Scalar")
NewFields == (<<"a">> :> [shape |-> "Vector", x |-> 0, y |-> 0])
             @@ (<<"a", "a">> :> [shape |-> "Scalar", n |-> 0])

FldInit ==
    /\ fldStore = NewFields
    /\ fldLast = NoLast

\* the build script has not resolved a version; Config::default() is
\* Version::Net(8)
NoVersions == [res |-> "none"]
VerInit ==
    /\ verInstalled = {}
    /\ verConfig = [kind |-> "Net", n |-> 8]
    /\ verOut = NoVersions

SideInit ==
    /\ LibInit
    /\ ErrInit
    /\ BootDone
    /\ sysAccess = [t \in Systems |-> "ResMut"]
    /\ SysIdle
    /\ FldInit
    /\ VerInit

Init ==
    /\ RtInit
    /\ strFn = "none"
    /\ strIn = <<>>
    /\ strOut = <<>>
    /\ SideInit

\* bookkeeping shared by all operations: the counters follow the calls made
Account(cs) ==
    /\ calls' = cs
    /\ ctxClosed' = Closed(ctxClosed, cs)

\* self.scripts.truncate(0) of Runtime::clear: Vec::truncate keeps the first
\* len elements
truncate_nothing(ts, len) == ts
truncate(ts, len) == SubSeq(ts, 1, len)

\* `self.fullname_to_script = HashMap::new();` of Runtime::clear
ClearedIndexKept(index) == index
ClearedIndex(index) == EmptyMap

\* `self.scope.replace(self.library.create_scope())` of Runtime::clear: the
\* Scope the Runtime holds afterwards, whatever status the Unload of the old
\* one writes later
InstalledScopeUnlessError(old, new, st) == IF old # NoScope /\ Failed(st) THEN old ELSE new
InstalledScope(old, new, st) == new

\* Runtime::clear
clear(st, st2) ==
    /\ rtAlive
    /\ Running
    /\ nextScope <= MaxScopes
    /\ LET new == nextScope
           cs == DropTypes(scripts, invokables)
                 \o <<Call("CreateScope", NULL, 0, new)>>
                 \o (IF scope # NoScope
                     THEN <<Call("Unload", scope, st, NULL)>> \o DropScope(scope, st2)
                     ELSE <<>>)
       IN /\ Account(cs)
          /\ scripts' = truncate(scripts, 0)
          /\ fullname_to_script' = ClearedIndex(fullname_to_script)
          /\ assemblies' = EmptyMap
          /\ scope' = InstalledScope(scope, new, st)
          /\ nextScope' = nextScope + 1
          /\ destroyed' = Released(destroyed, cs)
          /\ unloads' = Unloaded(unloads @@ (new :> 0), cs)
          /\ purged' = purged \cup CachedMethods(scripts)
          /\ last' = [op |-> "clear",
                      res |-> IF scope # NoScope /\ Failed(st) THEN ErrorFrom(st) ELSE "Ok"]
    /\ UNCHANGED <<rtAlive, handles, invokables, handed, createdFrom, strVars, sideVars>>

\* what the managed side can answer to a call that has a status and a result
\* pointer: a result only with status 0 (fresh is the non-null result)
Replies(fresh) == {<<st, out>> \in Statuses \X ({NULL} \cup fresh) : st > 0 => out = NULL}

\* a new handle of kind k, while the model has one left (and, for an Object,
\* while the application has room for the Script that holds it)
FreshHandle(k) ==
    IF handed[k] < MaxOf(k) /\ (k = "object" => Cardinality(handles) < MaxScripts)
    THEN {HandleOf(k, handed[k] + 1)} ELSE {}
Buffer == {1}    \* a non-null pointer to a JSON payload

\* the managed side handed out handle h of kind k (h = NULL: nothing handed out)
Allocate(h, k) ==
    handed' = IF h = NULL THEN handed ELSE [handed EXCEPT ![k] = @ + 1]

Extended(d, h) == IF h = NULL THEN d ELSE d @@ (h :> 0)

\* MetaData::default(), returned when the managed side writes no payload; the
\* MetaData decoded from a payload is that of the Class asked about
DefaultMetaData == [of |-> NULL]

\* RuntimeLibrary::get_meta_data: the calls it makes and what it returns
LibGetMetaData(class, st, buf, dec) ==
    [calls |-> <<Call("GetMetaData", class, st, buf)>>
               \o (IF ~Failed(st) /\ buf # NULL /\ dec THEN <<Call("Free", buf, 0, NULL)>> ELSE <<>>),
     res |-> IF Failed(st) THEN ErrorFrom(st)
             ELSE IF buf # NULL /\ ~dec THEN "Json" ELSE "Ok",
     value |-> IF buf # NULL THEN [of |-> class] ELSE DefaultMetaData]

\* Runtime::load
load(assembly, st, out) ==
    /\ rtAlive
    /\ Running
    /\ <<st, out>> \in Replies({1})
    /\ IF scope # NoScope
       THEN /\ Account(<<Call("LoadFromPath", scope, st, out)>>)
            /\ assemblies' = IF ~Failed(st) /\ out # NULL
                             THEN [a \in DOMAIN assemblies \cup {assembly} |->
                                     IF a = assembly THEN scope ELSE assemblies[a]]
                             ELSE assemblies
            /\ last' = [op |-> "load", assembly |-> assembly,
                        res |-> IF Failed(st) THEN ErrorFrom(st)
                                ELSE IF out = NULL THEN "PathNotFound" ELSE "Ok"]
       ELSE /\ st = 0 /\ out = NULL
            /\ Account(<<>>)
            /\ assemblies' = assemblies
            /\ last' = [op |-> "load", assembly |-> assembly, res |-> "Ok"]
    /\ UNCHANGED <<rtAlive, scope, fullname_to_script, scripts, handles, invokables,
                   handed, nextScope, destroyed, unloads, purged, createdFrom, strVars, sideVars>>

\* `let index = self.scripts.len();` of Runtime::register: the index the name
\* index records for the Type about to be pushed
RegisterIndexFirst(ts) == 0
RegisterIndex(ts) == Len(ts)

\* Runtime::register
register(name, st1, out1, st2, buf, dec) ==
    /\ rtAlive
    /\ Running
    /\ <<st1, out1>> \in Replies(FreshHandle("class"))
    /\ <<st2, buf>> \in Replies(Buffer)
    /\ LET noAsm == "Scripts" \notin DOMAIN assemblies
           gotClass == ~noAsm /\ ~Failed(st1) /\ out1 # NULL
           md == LibGetMetaData(out1, st2, buf, dec)
           ok == gotClass /\ md.res = "Ok"
           cs == IF noAsm THEN <<>>
                 ELSE <<Call("GetClass", assemblies["Scripts"], st1, out1)>>
                      \o (IF gotClass
                          THEN md.calls \o (IF ok THEN <<>> ELSE DropHandle(out1))
                          ELSE <<>>)
           index == RegisterIndex(scripts)
       IN /\ noAsm => st1 = 0 /\ out1 = NULL
          /\ ~gotClass => st2 = 0 /\ buf = NULL
          /\ (buf = NULL) => dec
          /\ Account(cs)
          /\ Allocate(IF noAsm THEN NULL ELSE out1, "class")
          /\ destroyed' = Released(Extended(destroyed, IF noAsm THEN NULL ELSE out1), cs)
          /\ IF ok
             THEN /\ fullname_to_script' =
                       [n \in DOMAIN fullname_to_script \cup {name} |->
                          IF n = name THEN index ELSE fullname_to_script[n]]
                  /\ scripts' = Append(scripts, [name |-> name, class |-> out1,
                                                 methods |-> EmptyMap,
                                                 metadata |-> md.value])
             ELSE UNCHANGED <<fullname_to_script, scripts>>
          /\ last' = [op |-> "register", name |-> name,
                      res |-> IF noAsm THEN "AssemblyNotLoaded"
                              ELSE IF Failed(st1) THEN ErrorFrom(st1)
                              ELSE IF out1 = NULL THEN "ClassNotFound"
                              ELSE md.res]
    /\ UNCHANGED <<rtAlive, scope, assemblies, handles, invokables, nextScope,
                   unloads, purged, createdFrom, strVars, sideVars>>

\* self.library.new_object(&script.class)?.ok_or(Error::UnknownManaged)? of
\* Runtime::create: what create returns for the reply of the managed New
NewObjectResultUnchecked(st, out) == IF out = NULL THEN "UnknownManaged" ELSE "Ok"
NewObjectResult(st, out) ==
    IF Failed(st) THEN ErrorFrom(st)
    ELSE IF out = NULL THEN "UnknownManaged" ELSE "Ok"

\* the managed New made Object out (NULL: none) from Class class
MadeFrom(made, out, class) == IF out = NULL THEN made ELSE made @@ (out :> class)

\* Runtime::create (with RuntimeLibrary::new_object)
create(name, st, out) ==
    /\ rtAlive
    /\ Running
    /\ <<st, out>> \in Replies(FreshHandle("object"))
    /\ IF name \in DOMAIN fullname_to_script
       THEN LET index == fullname_to_script[name]
                script == scripts[index + 1]
            IN /\ Account(<<Call("New", script.class, st, out)>>)
               /\ Allocate(out, "object")
               /\ destroyed' = Extended(destroyed, out)
               /\ createdFrom' = MadeFrom(createdFrom, out, script.class)
               /\ handles' = IF NewObjectResult(st, out) = "Ok"
                             THEN handles \cup {[index |-> index, instance |-> out]}
                             ELSE handles
               /\ last' = [op |-> "create", name |-> name, object |-> out,
                           res |-> NewObjectResult(st, out)]
       ELSE /\ st = 0 /\ out = NULL
            /\ Account(<<>>)
            /\ UNCHANGED <<handed, destroyed, handles, createdFrom>>
            /\ last' = [op |-> "create", name |-> name, object |-> NULL,
                        res |-> "ClassNotRegistered"]
    /\ UNCHANGED <<rtAlive, scope, assemblies, fullname_to_script, scripts, invokables,
                   nextScope, unloads, purged, strVars, sideVars>>

\* the managed side: the methods a script class has, whatever its name (Update
\* with and without an argument; no method called Jump)
ManagedMethods == {<<"Update", 0>>, <<"Update", 1>>}

\* the managed GetMethod: for a (name, arity) the class has no method for it
\* writes status 0 and no result
ManagedGetMethod(name, args, fresh) ==
    IF <<name, args>> \in ManagedMethods THEN Replies(fresh) ELSE {<<0, NULL>>}

\* RuntimeLibrary::get_method: what it returns for the reply of the managed
\* GetMethod
LibGetMethodResultNullIsError(st, out) ==
    IF Failed(st) THEN ErrorFrom(st)
    ELSE IF out = NULL THEN "MethodNotFound" ELSE "Some"
LibGetMethodResult(st, out) ==
    IF Failed(st) THEN ErrorFrom(st)
    ELSE IF out = NULL THEN "None" ELSE "Some"

\* the match on `self.library.get_method(..)?` in Runtime::get_method: the
\* lookup gave a Method to insert (an error leaves through `?`, None through
\* `return Ok(None)`)
ResolvedUnlessError(st, out) == ~Failed(st)
Resolved(st, out) == ~Failed(st) /\ out # NULL

\* the key of the method table of a Type: (name.to_string(), args)
MethodKeyByName(name, args) == <<name, 0>>
MethodKey(name, args) == <<name, args>>

\* Runtime::get_method (with RuntimeLibrary::get_method); keep: the caller
\* holds on to the Invokable it gets, otherwise it drops it at once
get_method(handle, name, args, st, out, keep) ==
    /\ rtAlive
    /\ Running
    /\ handle \in handles
    /\ <<st, out>> \in ManagedGetMethod(name, args, FreshHandle("method"))
    /\ LET inRange == handle.index < Len(scripts)
           script == scripts[handle.index + 1]
           key == MethodKey(name, args)
           hit == inRange /\ key \in DOMAIN script.methods
           looked == inRange /\ ~hit
           found == hit \/ (looked /\ Resolved(st, out))
           method == IF hit THEN script.methods[key] ELSE IF found THEN out ELSE NULL
           res == IF ~inRange THEN "None"
                  ELSE IF hit THEN "Some"
                  ELSE LibGetMethodResult(st, out)
       IN /\ ~looked => st = 0 /\ out = NULL
          /\ keep => found /\ BagCardinality(invokables) < MaxInvokables
          /\ Account(IF looked THEN <<Call("GetMethod", script.class, st, out)>> ELSE <<>>)
          /\ Allocate(out, "method")
          /\ destroyed' = Extended(destroyed, out)
          /\ scripts' = IF looked /\ found
                        THEN [scripts EXCEPT ![handle.index + 1].methods =
                                [k \in DOMAIN script.methods \cup {key} |->
                                   IF k = key THEN out ELSE script.methods[k]]]
                        ELSE scripts
          /\ invokables' = IF keep
                           THEN invokables (+) SetToBag({[instance |-> handle.instance,
                                                          method |-> method]})
                           ELSE invokables
          /\ last' = [op |-> "get_method", handle |-> handle, name |-> name, args |-> args,
                      res |-> res, method |-> method, looked |-> looked, hit |-> hit,
                      key |-> IF hit THEN key ELSE <<>>]
    /\ UNCHANGED <<rtAlive, scope, assemblies, fullname_to_script, handles, nextScope,
                   unloads, purged, createdFrom, strVars, sideVars>>

\* Invokable::invoke
invoke(inv, st) ==
    /\ Running
    /\ inv \in BagToSet(invokables)
    /\ Account(<<CallOn("RuntimeInvoke", inv.method, inv.instance, st, NULL)>>)
    /\ last' = [op |-> "invoke", res |-> IF Failed(st) THEN ErrorFrom(st) ELSE "Ok"]
    /\ UNCHANGED <<rtAlive, scope, assemblies, fullname_to_script, scripts, handles,
                   invokables, handed, nextScope, destroyed, unloads, purged, createdFrom, strVars, sideVars>>

\* what Object::set_field_value and set_property_value return for the status
\* written
SetResult(st) == IF Failed(st) THEN ErrorFrom(st) ELSE "Ok"

\* what Object::get_field_value and get_property_value return for the status
\* and the buffer written (dec: the payload decodes as the type asked for)
GetResultNoneOnBuffer(st, buf, dec) ==
    IF Failed(st) THEN ErrorFrom(st)
    ELSE IF buf # NULL THEN "None"
    ELSE IF ~dec THEN "Json" ELSE "Some"
GetResult(st, buf, dec) ==
    IF Failed(st) THEN ErrorFrom(st)
    ELSE IF buf = NULL THEN "None"
    ELSE IF ~dec THEN "Json" ELSE "Some"

\* Object::set_field_value and Object::set_property_value have the same body,
\* but for the function of the table they call
SetValue(fn, op, handle, st) ==
    /\ Running
    /\ handle \in handles
    /\ Account(<<Call(fn, handle.instance, st, NULL)>>)
    /\ last' = [op |-> op, res |-> SetResult(st)]
    /\ UNCHANGED <<rtAlive, scope, assemblies, fullname_to_script, scripts, handles,
                   invokables, handed, nextScope, destroyed, unloads, purged, createdFrom, strVars, sideVars>>

\* Object::get_field_value and Object::get_property_value, likewise
GetValue(fn, op, handle, st, buf, dec) ==
    /\ Running
    /\ handle \in handles
    /\ <<st, buf>> \in Replies(Buffer)
    /\ (buf = NULL) => dec
    /\ Account(<<Call(fn, handle.instance, st, buf)>>
               \o (IF ~Failed(st) /\ buf # NULL /\ dec THEN <<Call("Free", buf, 0, NULL)>> ELSE <<>>))
    /\ last' = [op |-> op, res |-> GetResult(st, buf, dec)]
    /\ UNCHANGED <<rtAlive, scope, assemblies, fullname_to_script, scripts, handles,
                   invokables, handed, nextScope, destroyed, unloads, purged, createdFrom, strVars, sideVars>>

set_field_value(handle, st) == SetValue("SetFieldValue", "set_field_value", handle, st)
get_field_value(handle, st, buf, dec) ==
    GetValue("GetFieldValue", "get_field_value", handle, st, buf, dec)
set_property_value(handle, st) == SetValue("SetPropertyValue", "set_property_value", handle, st)
get_property_value(handle, st, buf, dec) ==
    GetValue("GetPropertyValue", "get_property_value", handle, st, buf, dec)

\* self.scripts.get(handle.index): Some(the Type) or None (<<>>)
ScriptAtFirst(ts, index) == IF index < Len(ts) THEN <<ts[1]>> ELSE <<>>
ScriptAt(ts, index) == IF index < Len(ts) THEN <<ts[index + 1]>> ELSE <<>>

\* Runtime::get_meta_data: Option::unwrap panics on None
get_meta_data(handle) ==
    /\ rtAlive
    /\ Running
    /\ handle \in handles
    /\ Account(<<>>)
    /\ last' = [op |-> "get_meta_data", handle |-> handle,
                res |-> IF ScriptAt(scripts, handle.index) = <<>> THEN "panic" ELSE "Ok",
                value |-> IF ScriptAt(scripts, handle.index) = <<>> THEN DefaultMetaData
                          ELSE ScriptAt(scripts, handle.index)[1].metadata]
    /\ UNCHANGED <<rtAlive, scope, assemblies, fullname_to_script, scripts, handles,
                   invokables, handed, nextScope, destroyed, unloads, purged, createdFrom, strVars, sideVars>>

\* the application drops an Invokable: the Rc<Method> it holds is released,
\* and the Method with it when no method table holds it any more
DropInvokable(inv) ==
    /\ Running
    /\ inv \in BagToSet(invokables)
    /\ LET rest == invokables (-) SetToBag({inv})
           cs == IF inv.method \notin CachedMethods(scripts) /\ InvRefs(rest, inv.method) = 0
                 THEN DropHandle(inv.method) ELSE <<>>
       IN /\ invokables' = rest
          /\ Account(cs)
          /\ destroyed' = Released(destroyed, cs)
    /\ last' = [op |-> "drop_invokable", res |-> "Ok"]
    /\ UNCHANGED <<rtAlive, scope, assemblies, fullname_to_script, scripts, handles,
                   handed, nextScope, unloads, purged, createdFrom, strVars, sideVars>>

\* the application drops a Script (impl Drop for Object); an Invokable borrows
\* the Script it was made for, so none is alive
DropScript(handle) ==
    /\ Running
    /\ handle \in handles
    /\ \A inv \in BagToSet(invokables) : inv.instance # handle.instance
    /\ handles' = handles \ {handle}
    /\ Account(DropHandle(handle.instance))
    /\ destroyed' = Released(destroyed, DropHandle(handle.instance))
    /\ last' = [op |-> "drop_script", res |-> "Ok"]
    /\ UNCHANGED <<rtAlive, scope, assemblies, fullname_to_script, scripts, invokables,
                   handed, nextScope, unloads, purged, createdFrom, strVars, sideVars>>

\* impl Drop for Runtime, then the fields in declaration order: host,
\* library, scope, assemblies, fullname_to_script, scripts
DropRuntime(st) ==
    /\ rtAlive
    /\ Running
    /\ scope = NoScope => st = 0
    /\ LET cs == <<Call("hostfxr_close", NULL, 0, NULL)>>
                 \o (IF scope # NoScope THEN DropScope(scope, st) ELSE <<>>)
                 \o DropTypes(scripts, invokables)
       IN /\ Account(cs)
          /\ destroyed' = Released(destroyed, cs)
          /\ unloads' = Unloaded(unloads, cs)
    /\ rtAlive' = FALSE
    /\ scope' = NoScope
    /\ assemblies' = EmptyMap
    /\ fullname_to_script' = EmptyMap
    /\ scripts' = <<>>
    /\ last' = [op |-> "drop_runtime", res |-> "Ok"]
    /\ UNCHANGED <<handles, invokables, handed, nextScope, purged, createdFrom, strVars, sideVars>>

Next ==
    \/ \E st, st2 \in Statuses : clear(st, st2)
    \/ \E a \in AssemblyTypes, st \in Statuses, out \in {NULL, 1} : load(a, st, out)
    \/ \E n \in Names, st1, st2 \in Statuses, out1 \in {NULL} \cup FreshHandle("class"),
          buf \in {NULL} \cup Buffer, dec \in BOOLEAN :
          register(n, st1, out1, st2, buf, dec)
    \/ \E n \in Names, st \in Statuses, out \in {NULL} \cup FreshHandle("object") : create(n, st, out)
    \/ \E h \in handles, n \in MethodNames, a \in Arities, st \in Statuses,
          out \in {NULL} \cup FreshHandle("method"), keep \in BOOLEAN :
          get_method(h, n, a, st, out, keep)
    \/ \E inv \in BagToSet(invokables), st \in Statuses : invoke(inv, st)
    \/ \E h \in handles, st \in Statuses : set_field_value(h, st)
    \/ \E h \in handles, st \in Statuses, buf \in {NULL} \cup Buffer, dec \in BOOLEAN :
          get_field_value(h, st, buf, dec)
    \/ \E h \in handles, st \in Statuses : set_property_value(h, st)
    \/ \E h \in handles, st \in Statuses, buf \in {NULL} \cup Buffer, dec \in BOOLEAN :
          get_property_value(h, st, buf, dec)
    \/ \E h \in handles : get_meta_data(h)
    \/ \E inv \in BagToSet(invokables) : DropInvokable(inv)
    \/ \E h \in handles : DropScript(h)
    \/ \E st \in Statuses : DropRuntime(st)

Spec == Init /\ [][Next]_vars

\* ---- strings handed across the boundary ----
NUL == "NUL"                 \* the character '\0'
Chars == {NUL, "a"}
Strings == UNION {[1..n -> Chars] : n \in 0..MaxLen}

ends_with(s, c) == Len(s) > 0 /\ s[Len(s)] = c
starts_with(s, c) == Len(s) > 0 /\ s[1] = c

\* RuntimeLibrary::load_from_path: `if !path.ends_with('\0') { path.push('\0') }`
TerminatedPath(path) == IF ~ends_with(path, NUL) THEN Append(path, NUL) ELSE path

\* RuntimeLibrary::get_class: `if !name.starts_with('\0') { name.push('\0') }`
TerminatedClassName(name) == IF ~starts_with(name, NUL) THEN Append(name, NUL) ELSE name

\* RuntimeLibrary::get_method: `if !name.starts_with('\0') { name.push('\0') }`
TerminatedMethodName(name) == IF ~starts_with(name, NUL) THEN Append(name, NUL) ELSE name

\* RuntimeLibrary::set_field_value and Object::{set,get}_{field,property}_value:
\* `if !name.ends_with('\0') { name.push('\0') }`
TerminatedMemberName(name) == IF ~ends_with(name, NUL) THEN Append(name, NUL) ELSE name

MemberFunctions == {"RuntimeLibrary::set_field_value", "Object::set_field_value",
                    "Object::get_field_value", "Object::set_property_value",
                    "Object::get_property_value"}

Pass(fn, out) ==
    /\ strFn' = fn
    /\ strOut' = out
    /\ UNCHANGED <<strIn, rtVars, sideVars>>

PassPath == Pass("RuntimeLibrary::load_from_path", TerminatedPath(strIn))
PassClassName == Pass("RuntimeLibrary::get_class", TerminatedClassName(strIn))
PassMethodName == Pass("RuntimeLibrary::get_method", TerminatedMethodName(strIn))
PassMemberName(fn) == Pass(fn, TerminatedMemberName(strIn))

InitNul ==
    /\ RtInit
    /\ strFn = "none"
    /\ strIn \in Strings
    /\ strOut = <<>>
    /\ SideInit

NextNul ==
    \/ PassPath
    \/ PassClassName
    \/ PassMethodName
    \/ \E fn \in MemberFunctions : PassMemberName(fn)

SpecNul == InitNul /\ [][NextNul]_vars

\* ---- the function table used directly (Runtime::library is a public field) ----
StackValue == 100            \* the address of a value of the caller, not a handle

\* what a caller can pass as `value: impl ManagedParam`: a reference to a value
\* of its own (impl ManagedParam for &A) or one of its Objects, by value
\* (impl ManagedParam for Object)
ManagedParams(os) ==
    {[kind |-> "ref", ptr |-> StackValue]} \cup {[kind |-> "object", ptr |-> o] : o \in os}

\* ManagedParam::into_managed_param: the pointer handed on, and the calls made
\* before it returns; `self` of the Object impl is the Object itself, dropped
\* at the end of into_managed_param
into_managed_param(p) ==
    [ptr |-> p.ptr,
     calls |-> IF p.kind = "object" THEN DropHandle(p.ptr) ELSE <<>>]

\* RuntimeLibrary::get_class, called with an Assembly of Runtime::assemblies
LibGetClass(assembly, st, out) ==
    /\ rtAlive
    /\ assembly \in DOMAIN assemblies
    /\ <<st, out>> \in Replies(FreshHandle("class"))
    /\ Account(<<Call("GetClass", assemblies[assembly], st, out)>>)
    /\ Allocate(out, "class")
    /\ destroyed' = Extended(destroyed, out)
    /\ classes' = IF out = NULL THEN classes ELSE classes \cup {out}
    /\ last' = [op |-> "library.get_class",
                res |-> IF Failed(st) THEN ErrorFrom(st)
                        ELSE IF out = NULL THEN "None" ELSE "Some"]
    /\ UNCHANGED <<rtAlive, scope, assemblies, fullname_to_script, scripts, handles,
                   invokables, nextScope, unloads, purged, createdFrom, libRest, objects, methods>>

\* RuntimeLibrary::new_object
LibNewObject(class, st, out) ==
    /\ rtAlive
    /\ class \in classes
    /\ <<st, out>> \in Replies(FreshHandle("object"))
    /\ Account(<<Call("New", class, st, out)>>)
    /\ Allocate(out, "object")
    /\ destroyed' = Extended(destroyed, out)
    /\ objects' = IF out = NULL THEN objects ELSE objects \cup {out}
    /\ createdFrom' = MadeFrom(createdFrom, out, class)
    /\ last' = [op |-> "library.new_object",
                res |-> IF Failed(st) THEN ErrorFrom(st)
                        ELSE IF out = NULL THEN "None" ELSE "Some"]
    /\ UNCHANGED <<rtAlive, scope, assemblies, fullname_to_script, scripts, handles,
                   invokables, nextScope, unloads, purged, libRest, classes, methods>>

\* Object::set_field_value, Object::set_property_value and
\* RuntimeLibrary::set_field_value on an Object of the application: the
\* arguments of the call are evaluated in order (instance, name, value, status
\* pointer), then the function of the table is called
PassValue(fn, op, o, p, st) ==
    /\ o \in objects
    /\ p \in ManagedParams(objects \ {o})
    /\ LET param == into_managed_param(p)
           cs == param.calls \o <<CallOn(fn, o, param.ptr, st, NULL)>>
       IN /\ Account(cs)
          /\ destroyed' = Released(destroyed, cs)
    /\ objects' = IF p.kind = "object" THEN objects \ {p.ptr} ELSE objects
    /\ last' = [op |-> op, res |-> IF Failed(st) THEN ErrorFrom(st) ELSE "Ok"]
    /\ UNCHANGED <<rtAlive, scope, assemblies, fullname_to_script, scripts, handles,
                   invokables, handed, nextScope, unloads, purged, createdFrom, libRest, classes, methods>>

ObjSetFieldValue(o, p, st) == PassValue("SetFieldValue", "Object::set_field_value", o, p, st)
ObjSetPropertyValue(o, p, st) ==
    PassValue("SetPropertyValue", "Object::set_property_value", o, p, st)
LibSetFieldValue(o, p, st) ==
    /\ rtAlive
    /\ PassValue("SetFieldValue", "library.set_field_value", o, p, st)

\* the application drops a Class, an Object or a Method of its own
DropOwned(h) ==
    /\ h \in classes \cup objects \cup methods
    /\ classes' = classes \ {h}
    /\ objects' = objects \ {h}
    /\ methods' = methods \ {h}
    /\ Account(DropHandle(h))
    /\ destroyed' = Released(destroyed, DropHandle(h))
    /\ last' = [op |-> "drop", res |-> "Ok"]
    /\ UNCHANGED <<rtAlive, scope, assemblies, fullname_to_script, scripts, handles,
                   invokables, handed, nextScope, unloads, purged, createdFrom, libRest>>

NextLib ==
    \/ \E st, st2 \in Statuses : clear(st, st2)
    \/ \E a \in AssemblyTypes, st \in Statuses, out \in {NULL, 1} : load(a, st, out)
    \/ \E a \in AssemblyTypes, st \in Statuses, out \in {NULL} \cup FreshHandle("class") :
          LibGetClass(a, st, out)
    \/ \E c \in classes, st \in Statuses, out \in {NULL} \cup FreshHandle("object") :
          LibNewObject(c, st, out)
    \/ \E o \in objects, p \in ManagedParams(objects), st \in Statuses : ObjSetFieldValue(o, p, st)
    \/ \E o \in objects, p \in ManagedParams(objects), st \in Statuses : ObjSetPropertyValue(o, p, st)
    \/ \E o \in objects, p \in ManagedParams(objects), st \in Statuses : LibSetFieldValue(o, p, st)
    \/ \E h \in classes \cup objects \cup methods : DropOwned(h)

SpecLib == Init /\ [][NextLib]_vars

\* ---- dispatch: the instance pointer of an invoke ----
\* RuntimeLibrary::get_method, called with a Class of the application
LibGetMethod(class, name, args, st, out) ==
    /\ rtAlive
    /\ class \in classes
    /\ <<st, out>> \in ManagedGetMethod(name, args, FreshHandle("method"))
    /\ Account(<<Call("GetMethod", class, st, out)>>)
    /\ Allocate(out, "method")
    /\ destroyed' = Extended(destroyed, out)
    /\ methods' = IF out = NULL THEN methods ELSE methods \cup {out}
    /\ last' = [op |-> "library.get_method", res |-> LibGetMethodResult(st, out)]
    /\ UNCHANGED <<rtAlive, scope, assemblies, fullname_to_script, scripts, handles,
                   invokables, nextScope, unloads, purged, createdFrom, libRest, classes, objects>>

\* the Objects the application can hand to RuntimeLibrary::invoke: its own,
\* and those of its Scripts (Script derefs to Object)
Instances == objects \cup {h.instance : h \in handles}

\* `instance.map(|v| v.as_ptr().cast()).unwrap_or(std::ptr::null())` of
\* RuntimeLibrary::invoke; instance is <<>> for None and <<o>> for Some(o)
InstancePointerOfNone(instance) == NULL
InstancePointer(instance) == IF instance = <<>> THEN NULL ELSE instance[1]

\* RuntimeLibrary::invoke
LibInvoke(method, instance, st) ==
    /\ rtAlive
    /\ method \in methods
    /\ instance \in {<<>>} \cup {<<o>> : o \in Instances}
    /\ Account(<<CallOn("RuntimeInvoke", method, InstancePointer(instance), st, NULL)>>)
    /\ last' = [op |-> "library.invoke", instance |-> instance,
                res |-> IF Failed(st) THEN ErrorFrom(st) ELSE "Ok"]
    /\ UNCHANGED <<rtAlive, scope, assemblies, fullname_to_script, scripts, handles,
                   invokables, handed, nextScope, destroyed, unloads, purged, createdFrom, libRest,
                   libVars>>

NextInvoke ==
    \/ \E st, st2 \in Statuses : clear(st, st2)
    \/ \E a \in AssemblyTypes, st \in Statuses, out \in {NULL, 1} : load(a, st, out)
    \/ \E n \in Names, st1, st2 \in Statuses, out1 \in {NULL} \cup FreshHandle("class"),
          buf \in {NULL} \cup Buffer, dec \in BOOLEAN :
          register(n, st1, out1, st2, buf, dec)
    \/ \E n \in Names, st \in Statuses, out \in {NULL} \cup FreshHandle("object") : create(n, st, out)
    \/ \E h \in handles, n \in MethodNames, a \in Arities, st \in Statuses,
          out \in {NULL} \cup FreshHandle("method"), keep \in BOOLEAN :
          get_method(h, n, a, st, out, keep)
    \/ \E inv \in BagToSet(invokables), st \in Statuses : invoke(inv, st)
    \/ \E a \in AssemblyTypes, st \in Statuses, out \in {NULL} \cup FreshHandle("class") :
          LibGetClass(a, st, out)
    \/ \E c \in classes, n \in MethodNames, a \in Arities, st \in Statuses,
          out \in {NULL} \cup FreshHandle("method") : LibGetMethod(c, n, a, st, out)
    \/ \E m \in methods, i \in {<<>>} \cup {<<o>> : o \in Instances}, st \in Statuses :
          LibInvoke(m, i, st)

SpecInvoke == Init /\ [][NextInvoke]_vars

\* ---- the error mapping on its own ----
Codes == (0 - MaxCode)..MaxCode
ValueFunctions == {"Object::set_field_value", "Object::set_property_value",
                   "Object::get_field_value", "Object::get_property_value"}

Map(fn, out) ==
    /\ errFn' = fn
    /\ errOut' = out
    /\ UNCHANGED <<errIn, rtVars, errRest>>

MapFrom == Map("Error::from", ErrorFrom(errIn))
MapSet(fn) ==
    /\ fn \in {"Object::set_field_value", "Object::set_property_value"}
    /\ Map(fn, SetResult(errIn))
MapGet(fn, buf, dec) ==
    /\ fn \in {"Object::get_field_value", "Object::get_property_value"}
    /\ (buf = NULL) => dec
    /\ Map(fn, GetResult(errIn, buf, dec))

InitErr ==
    /\ RtInit
    /\ strFn = "none"
    /\ strIn = <<>>
    /\ strOut = <<>>
    /\ LibInit
    /\ BootDone
    /\ sysAccess = [t \in Systems |-> "ResMut"]
    /\ SysIdle
    /\ FldInit
    /\ VerInit
    /\ errFn = "none"
    /\ errIn \in Codes
    /\ errOut = "none"

NextErr ==
    \/ MapFrom
    \/ \E fn \in ValueFunctions : MapSet(fn)
    \/ \E fn \in ValueFunctions, buf \in {NULL} \cup Buffer, dec \in BOOLEAN : MapGet(fn, buf, dec)

SpecErr == InitErr /\ [][NextErr]_vars

\* ---- bootstrap: Runtime::new, Hostfxr::new, RuntimeLibrary::new ----
\* what hostfxr and the runtime delegates answer: a result code (0 is success)
\* and the pointer written to the out-parameter
HostResults == {0, 0 - 1}
Pointers == {NULL, 1}

BootStep(pc) ==
    /\ bootPc' = pc
    /\ UNCHANGED <<rtVars, bootRest>>

\* dotnet::get_path().ok_or(Error::PathNotFound)?
GetPath(found) ==
    /\ bootPc = "get_path"
    /\ BootStep(IF found THEN "load_hostfxr" ELSE "failed")
    /\ UNCHANGED <<bootInit, bootCtx, bootTable>>

\* Container::load(&paths.hostfxr).expect(..)
LoadHostfxr(ok) ==
    /\ bootPc = "load_hostfxr"
    /\ BootStep(IF ok THEN "initialize" ELSE "aborted")
    /\ UNCHANGED <<bootInit, bootCtx, bootTable>>

\* hostfxr_initialize_for_runtime_config(path, null, &raw mut ctx): the value
\* it returns is dropped; ctx stays null when it fails
Initialize(ok) ==
    /\ bootPc = "initialize"
    /\ bootInit' = ok
    /\ bootCtx' = IF ok THEN 1 ELSE NULL
    /\ BootStep("load_assembly")
    /\ UNCHANGED bootTable

\* hostfxr_get_runtime_delegate(ctx, hdt_load_assembly, ..) and
\* assert!(result == 0 && !load_assembly.is_null())
GetLoadAssembly(result, ptr) ==
    /\ bootPc = "load_assembly"
    /\ BootStep(IF result = 0 /\ ptr # NULL THEN "get_function_pointer" ELSE "aborted")
    /\ UNCHANGED <<bootInit, bootCtx, bootTable>>

\* hostfxr_get_runtime_delegate(ctx, hdt_get_function_pointer, ..) and
\* assert!(result == 0 && !get_function_pointer.is_null())
GetFunctionPointer(result, ptr) ==
    /\ bootPc = "get_function_pointer"
    /\ BootStep(IF result = 0 /\ ptr # NULL THEN "load_dll" ELSE "aborted")
    /\ UNCHANGED <<bootInit, bootCtx, bootTable>>

\* load_assembly(dll, null, null) and assert_eq!(result, 0)
LoadRuntimeDll(result) ==
    /\ bootPc = "load_dll"
    /\ BootStep(IF result = 0 THEN "bind" ELSE "aborted")
    /\ UNCHANGED <<bootInit, bootCtx, bootTable>>

\* Hostfxr::get_function_with_delegate for the next field of RuntimeLibrary:
\* assert_eq!(result, 0), then the delegate is returned as it was written
get_function_with_delegate(result, delegate) ==
    /\ bootPc = "bind"
    /\ Len(bootTable) < Len(TableEntries)
    /\ IF result = 0
       THEN /\ bootTable' = Append(bootTable, delegate)
            /\ BootStep("bind")
       ELSE /\ bootTable' = bootTable
            /\ BootStep("aborted")
    /\ UNCHANGED <<bootInit, bootCtx>>

\* Ok(Self { library, host, .. }) of Runtime::new
BootFinish ==
    /\ bootPc = "bind"
    /\ Len(bootTable) = Len(TableEntries)
    /\ BootStep("done")
    /\ UNCHANGED <<bootInit, bootCtx, bootTable>>

InitBoot ==
    /\ RtInit
    /\ strFn = "none"
    /\ strIn = <<>>
    /\ strOut = <<>>
    /\ LibInit
    /\ ErrInit
    /\ sysAccess = [t \in Systems |-> "ResMut"]
    /\ SysIdle
    /\ FldInit
    /\ VerInit
    /\ bootPc = "get_path"
    /\ bootInit = FALSE
    /\ bootCtx = NULL
    /\ bootTable = <<>>

NextBoot ==
    \/ \E found \in BOOLEAN : GetPath(found)
    \/ \E ok \in BOOLEAN : LoadHostfxr(ok)
    \/ \E ok \in BOOLEAN : Initialize(ok)
    \/ \E result \in HostResults, ptr \in Pointers : GetLoadAssembly(result, ptr)
    \/ \E result \in HostResults, ptr \in Pointers : GetFunctionPointer(result, ptr)
    \/ \E result \in HostResults : LoadRuntimeDll(result)
    \/ \E result \in HostResults, delegate \in Pointers :
          get_function_with_delegate(result, delegate)
    \/ BootFinish

SpecBoot == InitBoot /\ [][NextBoot]_vars

\* ---- systems calling Runtime::get_method (unsafe impl Sync for Runtime) ----
\* Each system calls get_method for the same Script type and the same (name,
\* arity).  The scheduler starts a system while another one runs only when both
\* take the resource shared (Res<Runtime>); Runtime being Sync, they then run
\* on different threads.  RefCell::borrow_mut reads the borrow flag and then
\* writes it, with no synchronisation between the two.
Inside(t) == sysPc[t] # "idle"
Aborted == \E t \in Systems : sysPc[t] = "panicked"

SysStep(t, pc) ==
    /\ sysPc' = [sysPc EXCEPT ![t] = pc]
    /\ UNCHANGED <<sysAccess, rtVars, sysRest>>

\* the system is started and enters get_method: self.scripts.get(handle.index)
SysStart(t) ==
    /\ ~Aborted
    /\ sysPc[t] = "idle"
    /\ \A u \in Systems \ {t} :
          Inside(u) => (sysAccess[t] = "Res" /\ sysAccess[u] = "Res")
    /\ SysStep(t, "borrow_mut")
    /\ UNCHANGED <<sysSeen, sysResult, borrowFlag, cached>>

\* script.methods.borrow_mut(): the flag is read
BorrowRead(t) ==
    /\ ~Aborted
    /\ sysPc[t] = "borrow_mut"
    /\ sysSeen' = [sysSeen EXCEPT ![t] = borrowFlag]
    /\ SysStep(t, "borrow_check")
    /\ UNCHANGED <<sysResult, borrowFlag, cached>>

\* script.methods.borrow_mut(): panics when the flag read says borrowed,
\* otherwise the flag is set
BorrowSet(t) ==
    /\ ~Aborted
    /\ sysPc[t] = "borrow_check"
    /\ IF sysSeen[t]
       THEN /\ SysStep(t, "panicked")
            /\ sysResult' = [sysResult EXCEPT ![t] = "panic"]
            /\ UNCHANGED borrowFlag
       ELSE /\ SysStep(t, "entry")
            /\ borrowFlag' = TRUE
            /\ UNCHANGED sysResult
    /\ UNCHANGED <<sysSeen, cached>>

\* .entry((name.to_string(), args)): Occupied returns the cached Method,
\* Vacant goes on to the managed side
SysEntry(t) ==
    /\ ~Aborted
    /\ sysPc[t] = "entry"
    /\ IF cached
       THEN /\ SysStep(t, "release")
            /\ sysResult' = [sysResult EXCEPT ![t] = "Some"]
       ELSE /\ SysStep(t, "lookup")
            /\ UNCHANGED sysResult
    /\ UNCHANGED <<sysSeen, borrowFlag, cached>>

\* self.library.get_method(..)? and the match on its result
SysLookup(t, st, out) ==
    /\ ~Aborted
    /\ sysPc[t] = "lookup"
    /\ <<st, out>> \in Replies({1})
    /\ IF LibGetMethodResult(st, out) = "Some"
       THEN /\ SysStep(t, "insert")
            /\ UNCHANGED sysResult
       ELSE /\ SysStep(t, "release")
            /\ sysResult' = [sysResult EXCEPT ![t] = LibGetMethodResult(st, out)]
    /\ UNCHANGED <<sysSeen, borrowFlag, cached>>

\* entry.insert(method.clone())
SysInsert(t) ==
    /\ ~Aborted
    /\ sysPc[t] = "insert"
    /\ cached' = TRUE
    /\ sysResult' = [sysResult EXCEPT ![t] = "Some"]
    /\ SysStep(t, "release")
    /\ UNCHANGED <<sysSeen, borrowFlag>>

\* the RefMut is dropped at the end of the match and get_method returns
SysRelease(t) ==
    /\ ~Aborted
    /\ sysPc[t] = "release"
    /\ borrowFlag' = FALSE
    /\ SysStep(t, "idle")
    /\ UNCHANGED <<sysSeen, sysResult, cached>>

InitSys ==
    /\ RtInit
    /\ strFn = "none"
    /\ strIn = <<>>
    /\ strOut = <<>>
    /\ LibInit
    /\ ErrInit
    /\ BootDone
    /\ sysAccess \in [Systems -> {"Res", "ResMut"}]
    /\ SysIdle
    /\ FldInit
    /\ VerInit

NextSys ==
    \/ \E t \in Systems : SysStart(t)
    \/ \E t \in Systems : BorrowRead(t)
    \/ \E t \in Systems : BorrowSet(t)
    \/ \E t \in Systems : SysEntry(t)
    \/ \E t \in Systems, st \in Statuses, out \in {NULL, 1} : SysLookup(t, st, out)
    \/ \E t \in Systems : SysInsert(t)
    \/ \E t \in Systems : SysRelease(t)

SpecSys == InitSys /\ [][NextSys]_vars

\* ---- field values across the boundary ----
\* the name the managed side reads from the pointer it is given: the
\* characters before the first NUL
CStr(s) ==
    LET nuls == {i \in DOMAIN s : s[i] = NUL}
    IN IF nuls = {} THEN s
       ELSE SubSeq(s, 1, (CHOOSE i \in nuls : \A j \in nuls : i <= j) - 1)

\* the JSON text of a value, as a sequence of tokens, and the value a JSON
\* text decodes to as the type asked for (<<>>: it does not decode)
Encode(v) ==
    IF v.shape = "Scalar" THEN <<ToString(v.n)>>
    ELSE <<"{", "x", ":", ToString(v.x), ",", "y", ":", ToString(v.y), "}">>
Number(t) == {n \in 0..MaxValue : ToString(n) = t}
Decode(json, shape) ==
    IF shape = "Scalar"
    THEN IF Len(json) = 1 /\ Number(json[1]) # {}
         THEN <<[shape |-> "Scalar", n |-> CHOOSE n \in Number(json[1]) : TRUE]>>
         ELSE <<>>
    ELSE IF /\ Len(json) = 9
            /\ <<json[1], json[2], json[3], json[5], json[6], json[7], json[9]>>
                 = <<"{", "x", ":", ",", "y", ":", "}">>
            /\ Number(json[4]) # {} /\ Number(json[8]) # {}
         THEN <<[shape |-> "Vector", x |-> CHOOSE n \in Number(json[4]) : TRUE,
                                    y |-> CHOOSE n \in Number(json[8]) : TRUE]>>
         ELSE <<>>

\* the managed SetFieldValue: FieldNotFound (3) for a name the class has no
\* field for; otherwise the memory at the pointer is read as a value of the
\* field's type and stored (read: what that gives; it is the caller's value
\* when the caller's value has the field's shape)
ManagedSetField(store, field, read) ==
    IF field \notin DOMAIN FieldTypes THEN [st |-> 3, store |-> store]
    ELSE [st |-> 0, store |-> [store EXCEPT ![field] = read]]

\* the managed GetFieldValue: FieldNotFound (3) for a name the class has no
\* field for; otherwise a buffer with the JSON text of the field's value
ManagedGetField(store, field) ==
    IF field \notin DOMAIN FieldTypes THEN [st |-> 3, buf |-> NULL, json |-> <<>>]
    ELSE [st |-> 0, buf |-> CHOOSE b \in Buffer : TRUE, json |-> Encode(store[field])]

\* Object::set_field_value(name, &v) on the object
FieldSet(name, v, read) ==
    /\ LET field == CStr(TerminatedMemberName(name))
           fits == field \in DOMAIN FieldTypes /\ v.shape = FieldTypes[field]
           reply == ManagedSetField(fldStore, field, read)
       IN /\ field \in DOMAIN FieldTypes => read \in ValuesOf(FieldTypes[field])
          /\ field \notin DOMAIN FieldTypes => read = v
          /\ fits => read = v
          /\ fldStore' = reply.store
          /\ fldLast' = [op |-> "set_field_value", name |-> name, value |-> v,
                         fits |-> fits, res |-> SetResult(reply.st)]
    /\ UNCHANGED <<rtVars, fldRest>>

\* Object::get_field_value::<A>(name) on the object, A being the type of the
\* given shape
FieldGet(name, shape) ==
    /\ LET field == CStr(TerminatedMemberName(name))
           reply == ManagedGetField(fldStore, field)
           value == Decode(reply.json, shape)
           res == GetResult(reply.st, reply.buf, value # <<>>)
       IN fldLast' = [op |-> "get_field_value", name |-> name, shape |-> shape,
                      res |-> res,
                      value |-> IF res = "Some" THEN value[1] ELSE NoLast]
    /\ UNCHANGED <<fldStore, rtVars, fldRest>>

InitField ==
    /\ RtInit
    /\ strFn = "none"
    /\ strIn = <<>>
    /\ strOut = <<>>
    /\ LibInit
    /\ ErrInit
    /\ BootDone
    /\ sysAccess = [t \in Systems |-> "ResMut"]
    /\ SysIdle
    /\ FldInit
    /\ VerInit

NextField ==
    \/ \E name \in Strings, v, read \in Values : FieldSet(name, v, read)
    \/ \E name \in Strings, shape \in {"Scalar", "Vector"} : FieldGet(name, shape)

SpecField == InitField /\ [][NextField]_vars

\* ---- build.rs: the framework version the build resolves ----
\* strings are sequences of character codes; String's order is the
\* lexicographic order of the bytes
Dot == 46                    \* '.'
Zero == 48                   \* '0'
NetPrefix == <<110, 101, 116>>   \* "net"

\* n.to_string() for a number
RECURSIVE to_string(_)
to_string(n) == IF n < 10 THEN <<Zero + n>> ELSE to_string(n \div 10) \o <<Zero + (n % 10)>>

\* the name of the directory of version major.minor.patch
VersionName(v) == to_string(v[1]) \o <<Dot>> \o to_string(v[2]) \o <<Dot>> \o to_string(v[3])

\* a < b for String
RECURSIVE StrLess(_, _)
StrLess(a, b) ==
    IF a = <<>> THEN b # <<>>
    ELSE IF b = <<>> THEN FALSE
    ELSE IF Head(a) # Head(b) THEN Head(a) < Head(b)
    ELSE StrLess(Tail(a), Tail(b))

\* v.starts_with(p) for strings
StrStartsWith(v, p) == Len(p) <= Len(v) /\ SubSeq(v, 1, Len(p)) = p

\* hostfxr_versions.sort()
RECURSIVE sort(_)
sort(S) ==
    IF S = {} THEN <<>>
    ELSE LET m == CHOOSE x \in S : \A y \in S \ {x} : StrLess(x, y)
         IN <<m>> \o sort(S \ {m})

\* framework.split_once('.').unwrap().0
RECURSIVE BeforeDot(_)
BeforeDot(s) == IF s = <<>> \/ Head(s) = Dot THEN <<>> ELSE <<Head(s)>> \o BeforeDot(Tail(s))

\* the framework get_versions picks among the sorted names: <<>> for None
PickFramework(config, hostfxr_versions) ==
    IF config.kind = "Net"
    THEN LET matching == SelectSeq(hostfxr_versions,
                                   LAMBDA v : StrStartsWith(v, to_string(config.n)))
         IN IF matching = <<>> THEN <<>> ELSE <<matching[Len(matching)]>>
    ELSE LET found == SelectSeq(hostfxr_versions, LAMBDA v : v = config.f)
         IN IF found = <<>> THEN <<>> ELSE <<found[1]>>

\* get_versions
get_versions ==
    /\ verOut = NoVersions
    /\ LET framework == PickFramework(verConfig, sort(verInstalled))
       IN verOut' = IF framework = <<>>
                    THEN [res |-> "panic"]
                    ELSE [res |-> "Ok", framework |-> framework[1],
                          net |-> NetPrefix \o BeforeDot(framework[1]) \o <<Dot, Zero>>]
    /\ UNCHANGED <<verInstalled, verConfig, rtVars, verRest>>

\* the versions that can be installed, and what the configuration can ask for
Parts == 0..MaxPart
Installable == {<<major, 0, patch>> : major \in Parts \ {0}, patch \in Parts}
Configs == {[kind |-> "Net", n |-> n] : n \in Parts \ {0}}
           \cup {[kind |-> "Framework", f |-> VersionName(<<major, 0, 0>>)] : major \in Parts \ {0}}

\* the subsets of S of at most k elements
RECURSIVE UpTo(_, _)
UpTo(S, k) ==
    IF k = 0 THEN {{}}
    ELSE UpTo(S, k - 1) \cup {T \cup {x} : T \in UpTo(S, k - 1), x \in S}

InitVer ==
    /\ RtInit
    /\ strFn = "none"
    /\ strIn = <<>>
    /\ strOut = <<>>
    /\ LibInit
    /\ ErrInit
    /\ BootDone
    /\ sysAccess = [t \in Systems |-> "ResMut"]
    /\ SysIdle
    /\ FldInit
    /\ verInstalled \in {{VersionName(v) : v \in S} : S \in UpTo(Installable, MaxInstalled)}
    /\ verConfig \in Configs
    /\ verOut = NoVersions

NextVer == get_versions

SpecVer == InitVer /\ [][NextVer]_vars

\* ---------------------- the claims ----------------------

\* C1: every Scope the Runtime created is unloaded exactly once: never twice,
\* and once as soon as the Runtime no longer holds it (after the clear() that
\* replaced it, after the Runtime was dropped).
C1_ScopeUnloadedOnce ==
    \A s \in DOMAIN unloads :
        /\ unloads[s] <= 1
        /\ s # scope => unloads[s] = 1

\* C2 (as claimed): two get_method calls with the same arguments, one right
\* after the other, look the method up on the managed side at most once.
C2_LookupAtMostOnce ==
    [][(/\ last.op = "get_method" /\ last'.op = "get_method"
        /\ last'.handle = last.handle /\ last'.name = last.name /\ last'.args = last.args)
       => ~(last.looked /\ last'.looked)]_vars

\* C2 (amended): a method table entry stays as it is until clear() or the drop
\* of the Runtime; a get_method call that finds an entry under exactly its
\* (name, arity) returns that Method without a managed-side lookup; a call that
\* finds none under exactly its (name, arity) goes to the managed side, whatever
\* is cached for the name under another arity; a call that returns a Method
\* leaves it in the table under (name, arity).  Hence a call that repeats a call
\* that returned a Method returns the same Method and looks nothing up.
C2_Entry(ts, h, key) == h.index < Len(ts) /\ key \in DOMAIN ts[h.index + 1].methods
C2_CachedMethodReused ==
    [][/\ (vars' # vars /\ last'.op \notin {"clear", "drop_runtime"}) =>
            \A i \in DOMAIN scripts : \A k \in DOMAIN scripts[i].methods :
                /\ i \in DOMAIN scripts'
                /\ k \in DOMAIN scripts'[i].methods
                /\ scripts'[i].methods[k] = scripts[i].methods[k]
       /\ (vars' # vars /\ last'.op = "get_method") =>
            LET h == last'.handle
                key == <<last'.name, last'.args>>
            IN /\ C2_Entry(scripts, h, key) =>
                    /\ last'.res = "Some"
                    /\ last'.method = scripts[h.index + 1].methods[key]
                    /\ ~last'.looked
                    /\ calls' = <<>>
               /\ (h.index < Len(scripts) /\ ~C2_Entry(scripts, h, key)) =>
                    /\ last'.looked
                    /\ Len(calls') = 1 /\ calls'[1].fn = "GetMethod"
                    /\ last'.method = calls'[1].out
               /\ last'.res = "Some" =>
                    /\ C2_Entry(scripts', h, key)
                    /\ scripts'[h.index + 1].methods[key] = last'.method
      ]_vars

\* C2 witness: a get_method call was answered from the method table while the
\* table holds nothing for the same name under the other arity asked for later
C2_Witness ==
    /\ last.op = "get_method" /\ last.hit /\ last.res = "Some"
    /\ \E a \in Arities : ~C2_Entry(scripts, last.handle, <<last.name, a>>)

\* C3: a Method that was in a method table when clear() ran is never returned
\* by get_method afterwards nor found in any method table, and clear() leaves
\* the type list and the name index empty (so no method table is left).
C3_PurgedMethodsGone ==
    /\ last.op = "get_method" => last.method \notin purged
    /\ CachedMethods(scripts) \cap purged = {}
    /\ last.op = "clear" => scripts = <<>> /\ fullname_to_script = EmptyMap

\* C3 witness: after a clear() that purged a cached Method, and after a class
\* was registered again, get_method was called with a Script made before the
\* clear() and had to ask the managed side
C3_Witness ==
    /\ purged # {}
    /\ last.op = "get_method" /\ last.looked
    /\ last.handle.index < Len(scripts)

\* C4 (as claimed): create(name) succeeds exactly when name is registered, and
\* fails with ClassNotRegistered otherwise.
C4_CreateSucceedsIffRegistered ==
    last.op = "create" =>
        /\ last.name \in DOMAIN fullname_to_script => last.res = "Ok"
        /\ last.name \notin DOMAIN fullname_to_script => last.res = "ClassNotRegistered"

\* C4 (amended): create(name) fails with ClassNotRegistered, calling nothing,
\* when name is not registered; otherwise it calls the managed New on the Class
\* registered under name and succeeds exactly when New writes status 0 and a
\* non-null handle (a positive status s gives Error::from(s), a null handle
\* UnknownManaged); the Object of a successful create is the handle New just
\* returned, held by exactly one Script and never released before.
C4_CreateOutcome ==
    last.op = "create" =>
        IF last.name \notin DOMAIN fullname_to_script
        THEN last.res = "ClassNotRegistered" /\ calls = <<>> /\ last.object = NULL
        ELSE /\ Len(calls) = 1
             /\ calls[1].fn = "New"
             /\ calls[1].h = scripts[fullname_to_script[last.name] + 1].class
             /\ last.res = (IF calls[1].st > 0 THEN ErrorFrom(calls[1].st)
                            ELSE IF calls[1].out = NULL THEN "UnknownManaged" ELSE "Ok")
             /\ last.object = calls[1].out
             /\ last.res = "Ok" =>
                  /\ Cardinality({h \in handles : h.instance = last.object}) = 1
                  /\ [index |-> fullname_to_script[last.name], instance |-> last.object] \in handles
                  /\ destroyed[last.object] = 0

\* C4 witness: a second Object was created for a registered name
C4_Witness ==
    /\ last.op = "create" /\ last.res = "Ok"
    /\ \E o \in DOMAIN destroyed : KindOf(o) = "object" /\ o # last.object

\* C5: the hosting context is closed at most once, and the operation that
\* closes it issues no Unload and no Destroy after the close.
C5_ContextClosedLast ==
    /\ ctxClosed <= 1
    /\ \A i, j \in DOMAIN calls :
          (i < j /\ calls[i].fn = "hostfxr_close") => calls[j].fn \notin {"Unload", "Destroy"}

\* C6: every non-null JSON buffer a call received from GetMetaData,
\* GetFieldValue or GetPropertyValue was handed to Free exactly once by the
\* time the call returned.
C6_BufferFreedOnce ==
    \A i \in DOMAIN calls :
        (calls[i].fn \in {"GetMetaData", "GetFieldValue", "GetPropertyValue"}
         /\ calls[i].out # NULL)
        => Cardinality({j \in DOMAIN calls : j > i /\ calls[j].fn = "Free"
                                             /\ calls[j].h = calls[i].out}) = 1

\* what still refers to handle h: a Type of the registry (its Class), a method
\* table or an Invokable (a Method), a Script (its Object)
Referenced(h) ==
    \/ \E i \in DOMAIN scripts : scripts[i].class = h
    \/ h \in CachedMethods(scripts)
    \/ \E inv \in BagToSet(invokables) : inv.method = h
    \/ \E s \in handles : s.instance = h

\* C7: every Class, Method and Object handle is passed to Destroy at most once,
\* never while a wrapper, a method table entry or an Invokable still refers to
\* it, and as soon as nothing refers to it any more.
C7_ReleasedExactlyOnce ==
    \A h \in DOMAIN destroyed :
        /\ destroyed[h] <= 1
        /\ destroyed[h] = 1 <=> ~Referenced(h)

\* C7 witness: a Method that an Invokable kept alive past the drop of its method
\* table was released by the drop of that Invokable
C7_Witness ==
    /\ last.op = "drop_invokable"
    /\ \E h \in DOMAIN destroyed : KindOf(h) = "method" /\ destroyed[h] = 1
    /\ \E i \in DOMAIN calls : calls[i].fn = "Destroy"

FallibleOps == {"create", "register", "load", "get_method", "invoke", "set_field_value",
                "get_field_value", "set_property_value", "get_property_value"}
StatusCalls == {"LoadFromPath", "GetClass", "GetMetaData", "New", "GetMethod",
                "RuntimeInvoke", "SetFieldValue", "GetFieldValue", "SetPropertyValue",
                "GetPropertyValue"}
Success == {"Ok", "Some", "None"}

C9_OneTerminator ==
    strFn # "none" =>
        /\ strOut = (IF ends_with(strIn, NUL) THEN strIn ELSE Append(strIn, NUL))
        /\ ends_with(strOut, NUL)

\* C10: an operation that unloads a Scope and gets a positive status from
\* Unload returns the error of that status to its caller.
C10_UnloadStatusSurfaced ==
    \A i \in DOMAIN calls :
        (calls[i].fn = "Unload" /\ calls[i].st > 0) => last.res = ErrorFrom(calls[i].st)

\* C11: a pointer handed to the managed side as the value of set_field_value or
\* set_property_value (Invokable::invoke converts its arguments with the same
\* into_managed_param) refers to a value that has not been released: when it
\* is a handle, no Destroy was called on it before the call, and none because
\* of the call.
C11_ArgumentsAlive ==
    \A i \in DOMAIN calls :
        (calls[i].fn \in {"SetFieldValue", "SetPropertyValue"}
         /\ calls[i].arg \in DOMAIN destroyed)
        => destroyed[calls[i].arg] = 0

BridgeOps == FallibleOps \cup {"clear", "get_meta_data"}
TypedErrors == {ErrorFrom(s) : s \in 1..12} \cup {"Json"}

\* C12: every bridge operation returns to its caller, with a success or with
\* an error of the taxonomy; none panics.
C12_NoAbort ==
    last.op \in BridgeOps => last.res \in Success \cup TypedErrors

C14_RegisterAppends ==
    last.op = "register" =>
        IF "Scripts" \notin DOMAIN assemblies THEN last.res = "AssemblyNotLoaded"
        ELSE IF calls[1].out = NULL THEN last.res = "ClassNotFound"
        ELSE /\ last.res = "Ok"
             /\ Len(scripts) >= 1
             /\ scripts[Len(scripts)].name = last.name
             /\ scripts[Len(scripts)].class = calls[1].out
             /\ last.name \in DOMAIN fullname_to_script
             /\ fullname_to_script[last.name] = Len(scripts) - 1

\* C14 (amended): register(name) fails with AssemblyNotLoaded, calling nothing,
\* when the assembly table has no scripts Assembly; otherwise it asks GetClass
\* of that Assembly and fails with the error of a positive status, or with
\* ClassNotFound when no class comes back; with a class it asks GetMetaData of
\* the class and fails with the error of a positive status or with Json for a
\* payload that does not decode, releasing the class; every failure leaves the
\* entry list and the name index as they were; otherwise it appends exactly one
\* entry (the name, the class, an empty method table) at the end of the list
\* and records its index under the name, the other names keeping theirs.
C14_RegisterOutcome ==
    [][(last'.op = "register" /\ vars' # vars) =>
        LET noAsm == "Scripts" \notin DOMAIN assemblies
            n == Len(scripts)
        IN /\ noAsm => (last'.res = "AssemblyNotLoaded" /\ calls' = <<>>)
           /\ ~noAsm =>
                /\ calls'[1].fn = "GetClass" /\ calls'[1].h = assemblies["Scripts"]
                /\ calls'[1].st > 0 => (last'.res = ErrorFrom(calls'[1].st) /\ Len(calls') = 1)
                /\ (calls'[1].st = 0 /\ calls'[1].out = NULL) =>
                      (last'.res = "ClassNotFound" /\ Len(calls') = 1)
                /\ calls'[1].out # NULL =>
                      /\ calls'[2].fn = "GetMetaData" /\ calls'[2].h = calls'[1].out
                      /\ calls'[2].st > 0 => last'.res = ErrorFrom(calls'[2].st)
                      /\ (calls'[2].st = 0 /\ calls'[2].out = NULL) => last'.res = "Ok"
                      /\ (calls'[2].st = 0 /\ calls'[2].out # NULL) => last'.res \in {"Ok", "Json"}
                      /\ last'.res # "Ok" =>
                            (calls'[Len(calls')].fn = "Destroy"
                             /\ calls'[Len(calls')].h = calls'[1].out)
           /\ last'.res # "Ok" =>
                (scripts' = scripts /\ fullname_to_script' = fullname_to_script)
           /\ last'.res = "Ok" =>
                /\ ~noAsm /\ calls'[1].out # NULL
                /\ Len(scripts') = n + 1
                /\ SubSeq(scripts', 1, n) = scripts
                /\ scripts'[n + 1].name = last'.name
                /\ scripts'[n + 1].class = calls'[1].out
                /\ scripts'[n + 1].methods = EmptyMap
                /\ DOMAIN fullname_to_script' = DOMAIN fullname_to_script \cup {last'.name}
                /\ fullname_to_script'[last'.name] = n
                /\ \A m \in DOMAIN fullname_to_script \ {last'.name} :
                      fullname_to_script'[m] = fullname_to_script[m]
      ]_vars

\* C14 witness: a second entry was appended, under another name
C14_Witness ==
    /\ last.op = "register" /\ last.res = "Ok"
    /\ Len(scripts) = 2
    /\ scripts[1].name # scripts[2].name

\* C15: the entry list never holds two entries of the same name, and between
\* two clear() calls (while the Runtime lives) it only grows at its end: the
\* entries it has stay where they are, with their name and Class.
C15_OneEntryPerName ==
    [][/\ \A i, j \in DOMAIN scripts' : scripts'[i].name = scripts'[j].name => i = j
       /\ (vars' # vars /\ last'.op \notin {"clear", "drop_runtime"}) =>
             /\ Len(scripts') >= Len(scripts)
             /\ \A i \in DOMAIN scripts :
                   /\ scripts'[i].name = scripts[i].name
                   /\ scripts'[i].class = scripts[i].class
      ]_vars

Taxonomy == <<"ClassNotFound", "MethodNotFound", "FieldNotFound", "PropertyNotFound",
              "ReadonlyField", "MissingGetter", "MissingSetter", "MissingRequiredArgument",
              "PathNotFound", "AssemblyNotLoaded", "ClassNotRegistered">>

\* C16: Error::from gives the n-th error of the taxonomy for n in 1..11 (an
\* error no other code of 1..11 gives) and UnknownManaged for every other
\* value; a set or get call returns that error for the positive status the
\* managed side wrote, so status 7 on a property write is MissingSetter and
\* status 6 on a property read is MissingGetter.
C16_ErrorTaxonomy ==
    LET expected == IF errIn \in 1..11 THEN Taxonomy[errIn] ELSE "UnknownManaged"
    IN /\ errFn = "Error::from" =>
             /\ errOut = expected
             /\ errIn \in 1..11 => \A c \in (1..11) \ {errIn} : ErrorFrom(c) # errOut
       /\ (errFn \in ValueFunctions /\ errIn > 0) => errOut = expected
       /\ (errFn = "Object::set_property_value" /\ errIn = 7) => errOut = "MissingSetter"
       /\ (errFn = "Object::get_property_value" /\ errIn = 6) => errOut = "MissingGetter"

\* C16 witness: a property write was rejected with status 7
C16_Witness ==
    /\ errFn = "Object::set_property_value"
    /\ errIn = 7
    /\ errOut = "MissingSetter"

\* C17: when Runtime::new has returned a Runtime, the hosting context was
\* initialized successfully and every field of the function table is a
\* non-null pointer (each was resolved with result 0, or the process aborted).
C17_BootstrapComplete ==
    bootPc = "done" =>
        /\ bootInit = TRUE
        /\ bootCtx # NULL
        /\ Len(bootTable) = Len(TableEntries)
        /\ \A i \in DOMAIN bootTable : bootTable[i] # NULL

\* C18: at most one system at a time is inside a bridge operation, and two
\* systems that take the Runtime shared are never both inside get_method
\* holding the method table of the Type mutably borrowed.
C18_OneCallerAtATime ==
    /\ Cardinality({t \in Systems : Inside(t)}) <= 1
    /\ \A t, u \in Systems :
          (t # u /\ sysAccess[t] = "Res" /\ sysAccess[u] = "Res")
          => ~(sysPc[t] \in {"entry", "lookup", "insert", "release"}
               /\ sysPc[u] \in {"entry", "lookup", "insert", "release"})

\* C19: when load(assembly) returns Ok, the managed side was asked to load the
\* assembly into the current Scope and the Assembly it returned is in the
\* assembly table; so a register right after an Ok load(Scripts) does not fail
\* with AssemblyNotLoaded.
C19_LoadOkMeansLoaded ==
    [][/\ (last'.op = "load" /\ last'.res = "Ok") =>
             /\ scope' # NoScope
             /\ Len(calls') = 1 /\ calls'[1].fn = "LoadFromPath" /\ calls'[1].out # NULL
             /\ last'.assembly \in DOMAIN assemblies'
             /\ assemblies'[last'.assembly] = scope'
       /\ (/\ last.op = "load" /\ last.res = "Ok" /\ last.assembly = "Scripts"
           /\ last'.op = "register") => last'.res # "AssemblyNotLoaded"
      ]_vars

C21_Dispatch ==
    [][(vars' # vars) =>
        /\ last'.op = "library.invoke" =>
              /\ Len(calls') = 1 /\ calls'[1].fn = "RuntimeInvoke"
              /\ calls'[1].arg = NULL <=> last'.instance = <<>>
              /\ last'.instance # <<>> => calls'[1].arg = last'.instance[1]
        /\ last'.op = "invoke" =>
              /\ Len(calls') = 1 /\ calls'[1].fn = "RuntimeInvoke"
              /\ \E inv \in BagToSet(invokables) :
                    /\ calls'[1].h = inv.method
                    /\ calls'[1].arg = inv.instance
                    /\ inv.instance # NULL
        /\ last'.op = "get_method" =>
              \A inv \in BagToSet(invokables') \ BagToSet(invokables) :
                  /\ inv.instance = last'.handle.instance
                  /\ inv.method = last'.method
      ]_vars

\* C21 witness: RuntimeLibrary::invoke was given the Object of a Script
C21_Witness ==
    /\ last.op = "library.invoke"
    /\ last.instance # <<>>
    /\ \E h \in handles : calls[1].arg = h.instance

\* C22: the MetaData of an entry of the registry is the one register decoded
\* from the GetMetaData reply for the entry's Class (the default one when there
\* was no payload); no operation but clear() and the drop of the Runtime
\* changes or removes it; and get_meta_data, called with a Script whose Class
\* is in the registry, returns the MetaData of the entry of that Class.
C22_MetadataStable ==
    [][(vars' # vars) =>
        /\ last'.op \notin {"clear", "drop_runtime"} =>
              \A i \in DOMAIN scripts :
                  /\ i \in DOMAIN scripts'
                  /\ scripts'[i].metadata = scripts[i].metadata
        /\ (last'.op = "register" /\ last'.res = "Ok") =>
              scripts'[Len(scripts')].metadata =
                  (IF calls'[2].out # NULL THEN [of |-> calls'[1].out] ELSE DefaultMetaData)
        /\ (last'.op = "get_meta_data" /\ last'.res = "Ok") =>
              \A i \in DOMAIN scripts :
                  scripts[i].class = createdFrom[last'.handle.instance] =>
                      /\ last'.value = scripts[i].metadata
                      /\ last'.value.of \in {NULL, scripts[i].class}
        /\ last'.op = "clear" => scripts' = <<>>
      ]_vars

\* C22 witness: get_meta_data returned the decoded MetaData of the second of
\* two entries, after a method of the Script's class was looked up
C22_Witness ==
    /\ last.op = "get_meta_data" /\ last.res = "Ok"
    /\ Len(scripts) = 2
    /\ last.handle.index = 1
    /\ last.value = [of |-> scripts[2].class]
    /\ scripts[1].metadata # scripts[2].metadata
    /\ scripts[2].methods # EmptyMap

\* C23: clear() and the drop of the Runtime pass every Class and every cached
\* Method of the registry to Destroy before they unload the Scope: none of
\* their Destroy calls on a Class or a Method comes after an Unload call.
C23_ReleasedBeforeUnload ==
    last.op \in {"clear", "drop_runtime"} =>
        \A i, j \in DOMAIN calls :
            (/\ calls[i].fn = "Unload"
             /\ calls[j].fn = "Destroy"
             /\ KindOf(calls[j].h) \in {"class", "method"})
            => j < i

\* C24: clear() creates one Scope; when the Runtime holds a Scope, clear()
\* unloads it before it creates the new one (so no two Scopes of the Runtime
\* are live at the same time); when it holds none, clear() unloads nothing.
C24_UnloadBeforeCreate ==
    [][(last'.op = "clear" /\ vars' # vars) =>
        /\ Cardinality({j \in DOMAIN calls' : calls'[j].fn = "CreateScope"}) = 1
        /\ scope = NoScope => \A i \in DOMAIN calls' : calls'[i].fn # "Unload"
        /\ scope # NoScope =>
              /\ \E i \in DOMAIN calls' : calls'[i].fn = "Unload" /\ calls'[i].h = scope
              /\ \A i, j \in DOMAIN calls' :
                    (calls'[i].fn = "Unload" /\ calls'[j].fn = "CreateScope") => i < j
      ]_vars

\* the installed versions, as numbers, whose major version is n
InstalledOf(n) == {v \in Installable : VersionName(v) \in verInstalled /\ v[1] = n}

\* v is at least w, compared component by component as numbers
AtLeast(v, w) ==
    \/ v[1] > w[1]
    \/ v[1] = w[1] /\ v[2] > w[2]
    \/ v[1] = w[1] /\ v[2] = w[2] /\ v[3] >= w[3]

\* C25: with Version::Net(n), get_versions returns the numerically greatest
\* installed version whose major version is n, and net<n>.0 as the target; it
\* resolves nothing when no installed version has major version n.
C25_LatestOfMajor ==
    (verOut # NoVersions /\ verConfig.kind = "Net") =>
        IF InstalledOf(verConfig.n) = {} THEN verOut.res = "panic"
        ELSE /\ verOut.res = "Ok"
             /\ \E v \in InstalledOf(verConfig.n) :
                   /\ \A w \in InstalledOf(verConfig.n) : AtLeast(v, w)
                   /\ verOut.framework = VersionName(v)
             /\ verOut.net = NetPrefix \o to_string(verConfig.n) \o <<Dot, Zero>>

\* C26: get_method asks the managed side only for methods of the Class the
\* Script's Object was created from, and a Method it returns is in the method
\* table of the entry of that Class.
C26_MethodsOfOwnClass ==
    last.op = "get_method" =>
        /\ last.looked => calls[1].h = createdFrom[last.handle.instance]
        /\ last.res = "Some" =>
              \E i \in DOMAIN scripts :
                  /\ scripts[i].class = createdFrom[last.handle.instance]
                  /\ last.method \in Range(scripts[i].methods)

\* C27: every index in the name index is a position of the entry list, and the
\* entry there has the name the index is stored under; the Script a successful
\* create returns holds a position of the entry list.
C27_NameIndexValid ==
    /\ \A n \in DOMAIN fullname_to_script :
          /\ fullname_to_script[n] \in 0..(Len(scripts) - 1)
          /\ scripts[fullname_to_script[n] + 1].name = n
    /\ (last.op = "create" /\ last.res = "Ok") =>
          \E h \in handles :
              /\ h.instance = last.object
              /\ h.index \in 0..(Len(scripts) - 1)
              /\ scripts[h.index + 1].name = last.name

\* C27 witness: two names are registered and a Script was created for the
\* second entry
C27_Witness ==
    /\ last.op = "create" /\ last.res = "Ok"
    /\ Cardinality(DOMAIN fullname_to_script) = 2
    /\ fullname_to_script[last.name] = 1

\* C28: a register call that fails leaves the entry list and the name index
\* as they were, and the Class it got from GetClass, if any, was passed to
\* Destroy exactly once by the time it returned.
C28_FailedRegisterIsClean ==
    [][(last'.op = "register" /\ last'.res # "Ok" /\ vars' # vars) =>
        /\ scripts' = scripts
        /\ fullname_to_script' = fullname_to_script
        /\ \A i \in DOMAIN calls' :
              (calls'[i].fn = "GetClass" /\ calls'[i].out # NULL) =>
                  /\ CountCalls(calls', "Destroy", calls'[i].out) = 1
                  /\ destroyed'[calls'[i].out] = 1
      ]_vars

\* C28 witness: with an entry in the registry, a register got a Class and
\* failed on the MetaData payload
C28_Witness ==
    /\ last.op = "register" /\ last.res = "Json"
    /\ Len(scripts) = 1
    /\ calls[1].fn = "GetClass" /\ calls[1].out # NULL
    /\ destroyed[calls[1].out] = 1

\* C29: a get_method call that asks the managed side and gets no Method (none
\* found, or an error) leaves every method table as it was, and so does a call
\* answered from the table; a call that asks and gets a Method adds exactly
\* that Method under exactly its (name, arity); the same call made again right
\* after a miss that got no Method asks the managed side again.
C29_NoNegativeEntry ==
    [][(last'.op = "get_method" /\ vars' # vars) =>
        LET i == last'.handle.index + 1
            key == <<last'.name, last'.args>>
        IN /\ (last'.res # "Some" \/ ~last'.looked) => scripts' = scripts
           /\ (last'.res = "Some" /\ last'.looked) =>
                 /\ key \notin DOMAIN scripts[i].methods
                 /\ DOMAIN scripts'[i].methods = DOMAIN scripts[i].methods \cup {key}
                 /\ scripts'[i].methods[key] = calls'[1].out
                 /\ calls'[1].out # NULL
                 /\ \A k \in DOMAIN scripts[i].methods :
                       scripts'[i].methods[k] = scripts[i].methods[k]
                 /\ \A j \in DOMAIN scripts : j # i => scripts'[j] = scripts[j]
                 /\ Len(scripts') = Len(scripts)
           /\ (/\ last.op = "get_method" /\ last.looked /\ last.res # "Some"
               /\ last'.handle = last.handle /\ last'.name = last.name
               /\ last'.args = last.args) => last'.looked
      ]_vars

\* C29 witness: with a Method in the table, a call for another key asked the
\* managed side, got none and left the table without an entry for its key
C29_Witness ==
    /\ last.op = "get_method" /\ last.looked /\ last.res = "None"
    /\ last.handle.index < Len(scripts)
    /\ scripts[last.handle.index + 1].methods # EmptyMap
    /\ <<last.name, last.args>> \notin DOMAIN scripts[last.handle.index + 1].methods

\* C30: when clear() returns, with Ok or with the error of the Unload, the
\* entry list, the name index and the assembly table are empty and the Runtime
\* holds the Scope that this clear() created, which is not the Scope it held
\* before and has not been unloaded.
C30_ClearAlwaysResets ==
    [][(last'.op = "clear" /\ vars' # vars) =>
        /\ scripts' = <<>>
        /\ fullname_to_script' = EmptyMap
        /\ assemblies' = EmptyMap
        /\ scope' # NoScope
        /\ scope' # scope
        /\ \E i \in DOMAIN calls' : calls'[i].fn = "CreateScope" /\ calls'[i].out = scope'
        /\ unloads'[scope'] = 0
      ]_vars

\* C30 witness: a clear() that released an entry of the registry returned the
\* error of the Unload of the old Scope
C30_Witness ==
    /\ last.op = "clear" /\ last.res # "Ok"
    /\ \E i \in DOMAIN calls : calls[i].fn = "Destroy"
    /\ \E i \in DOMAIN calls : calls[i].fn = "Unload" /\ calls[i].st > 0
====
